---- MODULE Spec2Model ----
(***************************************************************************)
(* The JAdES signature-request builder `Sign` and the algorithm            *)
(* dispatcher `JWTSigner` of lukasjhan/sd-jwt-vc-dm-owf.                   *)
(*                                                                         *)
(* Two variants of the class are in the repository:                        *)
(*   "jades"   src/packages/jades/src/sign.ts                              *)
(*   "example" src/examples/sd-jwt-vcdm-example/src/app.service.ts         *)
(*             (lines 99-439)                                              *)
(* The header setters are the same text in both; sign, setKid and the      *)
(* storing of the signed artifact differ.  An instance is of one variant.  *)
(*                                                                         *)
(* JavaScript values are tagged with their type: Str("x"), Bool(FALSE),    *)
(* Num(1), Arr(<<...>>), Obj(...), and Undefined.  A header object is a    *)
(* function from its own property names to such values (a property may be  *)
(* present with the value undefined).  Header objects live in `heap` and   *)
(* are held by reference, as in JavaScript.  The order of the properties   *)
(* of an object is not modelled.  Arguments that TypeScript types as       *)
(* string or boolean are plain TLA+ strings and booleans.                  *)
(***************************************************************************)
EXTENDS Integers, Sequences, FiniteSets, TLC

\* ----------------------------------------------------------------- bounds
\* API calls (setters, sign, toJSON) explored on the instances.
MaxOps == 3
\* Header objects the caller creates and may hand to setProtectedHeader.
MaxHeaders == 2

\* ------------------------------------------------------------- JS values
Undefined == <<"undefined">>
Str(s) == <<"string", s>>
Bool(b) == <<"boolean", b>>
Num(n) == <<"number", n>>
Arr(a) == <<"array", a>>
Obj(o) == <<"object", o>>
EmptyString == Str("")

HttpHeadersURI == "http://uri.etsi.org/19182/HttpHeaders"
ObjectIdByURI == "http://uri.etsi.org/19182/ObjectIdByURI"

\* obj[key] = value on a JavaScript object: the property is created or
\* overwritten, every other property is left alone.
AssignProp(obj, key, value) ==
    [k \in DOMAIN obj \cup {key} |-> IF k = key THEN value ELSE obj[k]]

\* obj.key read: undefined when the object has no such property.
GetProp(obj, key) == IF key \in DOMAIN obj THEN obj[key] ELSE Undefined

\* { ...obj, [key]: value }: a new object, obj's own properties copied.
SpreadWith(obj, key, value) == AssignProp(obj, key, value)

\* !x: undefined, '', false and 0 are falsy.
Falsy(x) == x = Undefined \/ x = Str("") \/ x = Bool(FALSE) \/ x = Num(0)

\* JSON.stringify of a header object: the members whose value is not
\* undefined (a property holding undefined is omitted from the text).
JSONstringify(obj) ==
    <<"json", [k \in {j \in DOMAIN obj : obj[j] # Undefined} |-> obj[k]]>>

\* base64urlEncode: an injective encoding of the text.
base64urlEncode(text) == <<"base64url", text>>

\* The header a protected value encodes (the inverse of the two above).
DecodeProtected(p) == p[2][2]

\* ------------------------------------------------------------ JWTSigner
RSAFamily == {"RS256", "RS384", "RS512", "PS256", "PS384", "PS512"}
ECDSAFamily == {"ES256", "ES384", "ES512"}
EdDSAFamily == {"EdDSA"}
Catalog == RSAFamily \cup ECDSAFamily \cup EdDSAFamily

\* JWTSigner.createSignature: the switch over alg.  The primitive it
\* dispatches to, or the thrown error.
JWTSigner_createSignature(alg) ==
    CASE alg \in {Str(a) : a \in RSAFamily} -> "createRSASignature"
      [] alg \in {Str(a) : a \in ECDSAFamily} -> "createECDSASignature"
      [] alg \in {Str(a) : a \in EdDSAFamily} -> "createEdDSASignature"
      [] OTHER -> "UnsupportedAlgorithm"

\* dsaEncoding passed to signer.sign by each primitive ("der" is Node's
\* default when none is passed).
dsaEncoding(prim) ==
    IF prim = "createECDSASignature" THEN "ieee-p1363" ELSE "der"

\* The value a primitive returns: signature.toString('base64url').
Signature(prim, signingInput) ==
    [prim |-> prim, dsaEncoding |-> dsaEncoding(prim), input |-> signingInput]

\* ------------------------------------------------------------ the state
Inst == {"A", "B"}
Variants == {"jades", "example"}

VARIABLES
    live,             \* the instances constructed
    variant,          \* which class each instance is of
    payload,          \* Sign.payload (readonly): undefined or the payload
    protectedHeader,  \* Sign.protectedHeader: a reference into heap
    heap,             \* the header objects, by reference
    disclosureFrame,  \* Sign.disclosureFrame
    serialized,       \* Sign.serialized: undefined or Obj(GeneralJWS)
    pending,          \* issue() calls awaited by createSignature
    signed,           \* history: a sign call has completed successfully
    last,             \* history: the last call, its argument and outcome
    nOps              \* history: API calls made

vars == <<live, variant, payload, protectedHeader, heap, disclosureFrame,
          serialized, pending, signed, last, nOps>>

\* The object `this.protectedHeader = {}` of the constructor.
CtorRef(i) == IF i = "A" THEN 1 ELSE 2
\* The header objects of the caller.
CallerRefs == 3 .. (2 + MaxHeaders)

\* this.protectedHeader, dereferenced.
Header(i) == heap[protectedHeader[i]]

\* ------------------------------------------------------------- inputs
EmptyObject == [k \in {} |-> Undefined]

Payloads == {Obj("claims")}
Frames == {Obj("frame1"), Obj("frame2")}
Kids == {"kid1"}
\* The certificate handed to the single-certificate setters.
Certs == {"certA"}
Strings == {"s1"}

\* Algorithm identifiers a caller may put in a header: one of each family
\* of the catalog, one outside it, the sentinel and the empty string.
LitAlgs == {"RS256", "ES256", "EdDSA", "HS256", "none", ""}

SigDHttp ==
    [mId |-> HttpHeadersURI, pars |-> <<"(request-target)", "digest">>,
     hash |-> "S256"]
SigDObjectId ==
    [mId |-> ObjectIdByURI, pars |-> <<"par1", "par2">>, hash |-> "S256"]
SigDs == {SigDHttp, SigDObjectId}

\* Header objects a caller may write: {}, { alg } for each of LitAlgs, and
\* an RS256 header that also carries the HTTP-headers sigD with b64 false,
\* or a kid.
HeaderLiterals ==
    {EmptyObject}
    \cup {AssignProp(EmptyObject, "alg", Str(a)) : a \in LitAlgs}
    \cup {AssignProp(AssignProp(AssignProp(EmptyObject, "alg", Str("RS256")),
                                "sigD", Obj(SigDHttp)),
                     "b64", Bool(FALSE)),
          AssignProp(AssignProp(EmptyObject, "alg", Str("RS256")),
                     "kid", Str("kid0"))}

\* Certificate lists handed to setX5ts: none, one, two, three.
CertLists ==
    {<<>>, <<"certA">>, <<"certA", "certB">>, <<"certB", "certA", "certB">>}
\* Certificate lists handed to setX5c.
ChainLists == {<<>>, <<"certA", "certB">>}

\* Date.now(), in milliseconds (two instants either side of a second).
Clock == {1999, 2000}
\* The seconds argument of setIssuedAt / setSignedAt: omitted, or given.
SecArgs == {Undefined, Num(0)}

\* X509Certificate.raw rendered by toString('base64').
Base64(cert) == Str(<<"base64", cert>>)
\* createHash(alg).update(cert.raw).digest('base64url').
Digest(alg, cert) == Str(<<alg, "base64url", cert>>)

\* --------------------------------------------------------- construction
InitWith(L) ==
    /\ live = L
    /\ variant \in {v \in [Inst -> Variants] :
                       \A i \in Inst \ L : v[i] = "jades"}
    /\ payload \in {p \in [Inst -> Payloads \cup {Undefined}] :
                       \A i \in Inst \ L : p[i] = Undefined}
    /\ protectedHeader = [i \in Inst |-> CtorRef(i)]
    /\ heap = [r \in {CtorRef(i) : i \in Inst} |-> EmptyObject]
    /\ disclosureFrame = [i \in Inst |-> Undefined]
    /\ serialized = [i \in Inst |-> Undefined]
    /\ pending = [i \in Inst |-> <<>>]
    /\ signed = [i \in Inst |-> FALSE]
    /\ last = [op |-> "constructor", inst |-> "A", arg |-> Undefined,
               result |-> "ok", signerCalls |-> <<>>, issueCalls |-> <<>>]
    /\ nOps = 0

\* One instance.
Init == InitWith({"A"})

\* ------------------------------------------------------------- history
\* The call just made: its name, receiver, argument and outcome, the
\* JWTSigner.sign calls and the issue calls it made.
Called(op, i, arg, result, signerCalls, issueCalls) ==
    /\ last' = [op |-> op, inst |-> i, arg |-> arg, result |-> result,
                signerCalls |-> signerCalls, issueCalls |-> issueCalls]
    /\ nOps' = nOps + 1

Setter(op, i, arg, result) == Called(op, i, arg, result, <<>>, <<>>)

\* this.protectedHeader.<...> = ...: the object referenced is updated in
\* place, so every holder of the reference sees it.
MutateHeader(i, obj) ==
    /\ heap' = [heap EXCEPT ![protectedHeader[i]] = obj]
    /\ UNCHANGED protectedHeader

\* Objects no one can reach any more are dropped: a constructor's {} once
\* the instance holds another header and no awaited issue call holds it.
Collect(h, ph) ==
    [r \in {q \in DOMAIN h :
               \/ q \in CallerRefs
               \/ \E j \in Inst : ph[j] = q
               \/ \E j \in Inst : \E n \in DOMAIN pending[j] :
                      pending[j][n].sigs[1].header = q}
       |-> h[r]]

\* ------------------------------------------------------- header setters
\* Mutant of algMissingOrNone: only the sentinel is refused, a missing alg
\* passes.
algIsNone(header) == GetProp(header, "alg") = Str("none")

\* Mutant of algMissingOrNone: only a missing alg is refused, "none" passes.
algMissingOnly(header) == Falsy(GetProp(header, "alg"))

\* The guard of setProtectedHeader and of sign:
\*   !header.alg || header.alg === 'none'
algMissingOrNone(header) ==
    Falsy(GetProp(header, "alg")) \/ GetProp(header, "alg") = Str("none")

\* Mutant of setProtectedHeaderResult: the header is stored unvalidated.
setProtectedHeaderResult_unchecked(obj) == "ok"

\* setProtectedHeader's guard on the header object handed in: the error
\* thrown, or "ok" when the reference is stored.
setProtectedHeaderResult(obj) ==
    IF algMissingOrNone(obj) THEN "InvalidAlgorithm" ELSE "ok"

setProtectedHeader(i, r, obj) ==
    /\ nOps < MaxOps
    /\ \/ r \in DOMAIN heap /\ obj = heap[r]
       \/ /\ r \notin DOMAIN heap
          /\ \A q \in CallerRefs : q < r => q \in DOMAIN heap
    /\ IF setProtectedHeaderResult(obj) = "ok"
       THEN /\ protectedHeader' = [protectedHeader EXCEPT ![i] = r]
            /\ heap' = Collect(AssignProp(heap, r, obj), protectedHeader')
       ELSE UNCHANGED <<protectedHeader, heap>>
    /\ Setter("setProtectedHeader", i, obj, setProtectedHeaderResult(obj))
    /\ UNCHANGED <<live, variant, payload, disclosureFrame, serialized,
                   pending, signed>>

setDisclosureFrame(i, frame) ==
    /\ nOps < MaxOps
    /\ disclosureFrame' = [disclosureFrame EXCEPT ![i] = frame]
    /\ Setter("setDisclosureFrame", i, frame, "ok")
    /\ UNCHANGED <<live, variant, payload, protectedHeader, heap, serialized,
                   pending, signed>>

\* Mutant of b64Set: true is stored as an explicit true.
b64Set_explicitTrue(obj, b64) == AssignProp(obj, "b64", Bool(b64))

\* setB64's effect on the header object.
b64Set(obj, b64) ==
    IF b64 THEN AssignProp(obj, "b64", Undefined)
    ELSE AssignProp(obj, "b64", Bool(FALSE))

setB64(i, b64) ==
    /\ nOps < MaxOps
    /\ MutateHeader(i, b64Set(Header(i), b64))
    /\ Setter("setB64", i, b64, "ok")
    /\ UNCHANGED <<live, variant, payload, disclosureFrame, serialized,
                   pending, signed>>

\* Mutant of secondsOrNow: the argument is ignored, the clock always read.
secondsOrNow_alwaysNow(sec, nowMs) == Num(nowMs \div 1000)

\* sec ?? Math.floor(Date.now() / 1000)
secondsOrNow(sec, nowMs) ==
    IF sec = Undefined THEN Num(nowMs \div 1000) ELSE sec

setIssuedAt(i, sec, nowMs) ==
    /\ nOps < MaxOps
    /\ MutateHeader(i, AssignProp(Header(i), "iat", secondsOrNow(sec, nowMs)))
    /\ Setter("setIssuedAt", i, sec, "ok")
    /\ UNCHANGED <<live, variant, payload, disclosureFrame, serialized,
                   pending, signed>>

setSignedAt(i, sec, nowMs) ==
    /\ nOps < MaxOps
    /\ MutateHeader(i, AssignProp(Header(i), "signedAt",
                                  secondsOrNow(sec, nowMs)))
    /\ Setter("setSignedAt", i, sec, "ok")
    /\ UNCHANGED <<live, variant, payload, disclosureFrame, serialized,
                   pending, signed>>

\* Mutant of sigDSet: sigD is stored and b64 is left alone.
sigDSet_noB64(obj, sigd) == AssignProp(obj, "sigD", Obj(sigd))

\* Mutant of sigDSet: b64 is forced to false whatever the mechanism.
sigDSet_alwaysB64(obj, sigd) ==
    b64Set(AssignProp(obj, "sigD", Obj(sigd)), FALSE)

\* setSigD's effect on the header object: sigD stored, then setB64(false)
\* when the mechanism is the HTTP-headers one.
sigDSet(obj, sigd) ==
    LET stored == AssignProp(obj, "sigD", Obj(sigd))
    IN IF sigd.mId = HttpHeadersURI THEN b64Set(stored, FALSE) ELSE stored

setSigD(i, sigd) ==
    /\ nOps < MaxOps
    /\ MutateHeader(i, sigDSet(Header(i), sigd))
    /\ Setter("setSigD", i, sigd, "ok")
    /\ UNCHANGED <<live, variant, payload, disclosureFrame, serialized,
                   pending, signed>>

setJti(i, jti) ==
    /\ nOps < MaxOps
    /\ MutateHeader(i, AssignProp(Header(i), "jti", Str(jti)))
    /\ Setter("setJti", i, jti, "ok")
    /\ UNCHANGED <<live, variant, payload, disclosureFrame, serialized,
                   pending, signed>>

setX5u(i, uri) ==
    /\ nOps < MaxOps
    /\ MutateHeader(i, AssignProp(Header(i), "x5u", Str(uri)))
    /\ Setter("setX5u", i, uri, "ok")
    /\ UNCHANGED <<live, variant, payload, disclosureFrame, serialized,
                   pending, signed>>

\* certs.map((cert) => cert.raw.toString('base64'))
x5cOf(certs) == Arr([n \in 1 .. Len(certs) |-> Base64(certs[n])])

setX5c(i, certs) ==
    /\ nOps < MaxOps
    /\ MutateHeader(i, AssignProp(Header(i), "x5c", x5cOf(certs)))
    /\ Setter("setX5c", i, certs, "ok")
    /\ UNCHANGED <<live, variant, payload, disclosureFrame, serialized,
                   pending, signed>>

setX5tS256(i, cert) ==
    /\ nOps < MaxOps
    /\ MutateHeader(i, AssignProp(Header(i), "x5t#256",
                                  Digest("sha-256", cert)))
    /\ Setter("setX5tS256", i, cert, "ok")
    /\ UNCHANGED <<live, variant, payload, disclosureFrame, serialized,
                   pending, signed>>

\* { digAlg: 'sha-512', digVal: createHash('sha-512')...digest('base64url') }
digestPair(cert) ==
    Obj([digAlg |-> Str("sha-512"), digVal |-> Digest("sha-512", cert)])

setX5tSo(i, cert) ==
    /\ nOps < MaxOps
    /\ MutateHeader(i, AssignProp(Header(i), "x5t#o", digestPair(cert)))
    /\ Setter("setX5tSo", i, cert, "ok")
    /\ UNCHANGED <<live, variant, payload, disclosureFrame, serialized,
                   pending, signed>>

\* Mutant of x5tsResult: a single certificate is accepted.
x5tsResult_nonEmpty(certs) ==
    IF Len(certs) < 1 THEN "InsufficientCertificates" ELSE "ok"

\* setX5ts's guard: certs.length < 2 throws.
x5tsResult(certs) ==
    IF Len(certs) < 2 THEN "InsufficientCertificates" ELSE "ok"

\* certs.map((cert) => ({ digAlg, digVal }))
x5tsOf(certs) == Arr([n \in 1 .. Len(certs) |-> digestPair(certs[n])])

setX5ts(i, certs) ==
    /\ nOps < MaxOps
    /\ IF x5tsResult(certs) = "ok"
       THEN MutateHeader(i, AssignProp(Header(i), "x5t#s", x5tsOf(certs)))
       ELSE UNCHANGED <<protectedHeader, heap>>
    /\ Setter("setX5ts", i, certs, x5tsResult(certs))
    /\ UNCHANGED <<live, variant, payload, disclosureFrame, serialized,
                   pending, signed>>

setCty(i, cty) ==
    /\ nOps < MaxOps
    /\ MutateHeader(i, AssignProp(Header(i), "cty", Str(cty)))
    /\ Setter("setCty", i, cty, "ok")
    /\ UNCHANGED <<live, variant, payload, disclosureFrame, serialized,
                   pending, signed>>

\* setKid exists in the jades variant only.
setKid(i, kid) ==
    /\ nOps < MaxOps
    /\ variant[i] = "jades"
    /\ MutateHeader(i, AssignProp(Header(i), "kid", Str(kid)))
    /\ Setter("setKid", i, kid, "ok")
    /\ UNCHANGED <<live, variant, payload, disclosureFrame, serialized,
                   pending, signed>>

\* ------------------------------------------------------------- signing
\* `${encodedProtectedHeader}.${encodedPayload}`
protectedDataOf(encodedProtectedHeader, encodedPayload) ==
    <<encodedProtectedHeader, ".", encodedPayload>>

\* The outcome of JWTSigner.sign(alg, ...): the switch's error, a failure
\* of the primitive it dispatched to (primOk false), or "ok".
JWTSigner_sign(alg, primOk) ==
    IF JWTSigner_createSignature(alg) = "UnsupportedAlgorithm"
    THEN "UnsupportedAlgorithm"
    ELSE IF primOk THEN "ok" ELSE "PrimitiveFailure"

\* sign of the jades variant (sign.ts 60-97): the guard, then in detached
\* mode a signature that is computed and dropped; nothing is stored.
jadesSignResult(i, primOk) ==
    IF algMissingOrNone(Header(i)) THEN "AlgorithmNotSet"
    ELSE IF payload[i] = Undefined
         THEN JWTSigner_sign(GetProp(Header(i), "alg"), primOk)
         ELSE "ok"

jadesSignerCalls(i) ==
    IF ~algMissingOrNone(Header(i)) /\ payload[i] = Undefined
    THEN <<[alg |-> GetProp(Header(i), "alg"),
            input |-> protectedDataOf(
                          base64urlEncode(JSONstringify(Header(i))),
                          EmptyString)]>>
    ELSE <<>>

jadesSign(i, primOk) ==
    /\ nOps < MaxOps
    /\ variant[i] = "jades"
    /\ signed' = [signed EXCEPT ![i] = @ \/ jadesSignResult(i, primOk) = "ok"]
    /\ Called("sign", i, "", jadesSignResult(i, primOk),
              jadesSignerCalls(i), <<>>)
    /\ UNCHANGED <<live, variant, payload, protectedHeader, heap,
                   disclosureFrame, serialized, pending>>

\* appendSignature of the example variant (app.service.ts 161-165): the
\* serialized artifact after the call.
appendSignature(jws, kid) == jws

\* Mutant of detachedProtected: { kid, ...this.protectedHeader }, a kid
\* already in the header wins over sign's argument.
detachedProtected_headerKidWins(header, kid) ==
    base64urlEncode(JSONstringify(
        IF "kid" \in DOMAIN header THEN header
        ELSE SpreadWith(header, "kid", Str(kid))))

\* createSignature, detached branch: base64urlEncode(JSON.stringify({
\* ...this.protectedHeader, kid })).
detachedProtected(header, kid) ==
    base64urlEncode(JSONstringify(SpreadWith(header, "kid", Str(kid))))

\* createSignature, detached branch: the artifact stored in serialized.
detachedJWS(header, kid) ==
    LET encodedProtectedHeader == detachedProtected(header, kid)
        protectedData == protectedDataOf(encodedProtectedHeader, EmptyString)
        signature ==
            Signature(JWTSigner_createSignature(GetProp(header, "alg")),
                      protectedData)
    IN [payload |-> EmptyString,
        signatures |-> <<[protected |-> encodedProtectedHeader,
                          signature |-> signature]>>]

\* Mutant of issueCall: the disclosure frame is not handed to issue.
issueCall_noFrame(i, kid) ==
    [hashAlg |-> "sha-256",
     signAlg |-> GetProp(Header(i), "alg"),
     payload |-> payload[i],
     disclosureFrame |-> Undefined,
     sigs |-> <<[alg |-> GetProp(Header(i), "alg"), kid |-> kid,
                 header |-> protectedHeader[i]]>>]

\* createSignature, issuance branch: the arguments of
\* new SDJwtGeneralJSONInstance(...) and of issue(...).
issueCall(i, kid) ==
    [hashAlg |-> "sha-256",
     signAlg |-> GetProp(Header(i), "alg"),
     payload |-> payload[i],
     disclosureFrame |-> disclosureFrame[i],
     sigs |-> <<[alg |-> GetProp(Header(i), "alg"), kid |-> kid,
                 header |-> protectedHeader[i]]>>]

\* sign of the example variant (app.service.ts 243-256) with the
\* createSignature it calls (167-241), up to the await of issue.
exampleSignResult(i, primOk) ==
    IF algMissingOrNone(Header(i)) THEN "AlgorithmNotSet"
    ELSE IF serialized[i] # Undefined THEN "ok"
    ELSE IF payload[i] = Undefined
         THEN JWTSigner_sign(GetProp(Header(i), "alg"), primOk)
         ELSE "pending"

exampleSign(i, kid, primOk) ==
    LET result == exampleSignResult(i, primOk)
        creating == ~algMissingOrNone(Header(i)) /\ serialized[i] = Undefined
        detached == creating /\ payload[i] = Undefined
    IN /\ nOps < MaxOps
       /\ variant[i] = "example"
       /\ serialized' =
            [serialized EXCEPT ![i] =
               IF result = "ok"
               THEN IF serialized[i] # Undefined
                    THEN Obj(appendSignature(serialized[i][2], kid))
                    ELSE Obj(detachedJWS(Header(i), kid))
               ELSE @]
       /\ pending' =
            [pending EXCEPT ![i] =
               IF result = "pending" THEN Append(@, issueCall(i, kid)) ELSE @]
       /\ signed' = [signed EXCEPT ![i] = @ \/ result = "ok"]
       /\ Called("sign", i, kid, result,
                 IF detached
                 THEN <<[alg |-> GetProp(Header(i), "alg"),
                         input |-> protectedDataOf(
                                       detachedProtected(Header(i), kid),
                                       EmptyString)]>>
                 ELSE <<>>,
                 IF result = "pending" THEN <<issueCall(i, kid)>> ELSE <<>>)
       /\ UNCHANGED <<live, variant, payload, protectedHeader, heap,
                      disclosureFrame>>

\* The issuance engine (@sd-jwt/core, an external collaborator) at work on
\* an awaited call c: the payload it encodes, the protected header it
\* encodes for the one signer entry (the header object it was handed, read
\* when it signs, with the entry's alg and kid), and the data it hands to
\* the signer callback.
enginePayload(c) == Str(<<"sd-jwt", c.payload, c.disclosureFrame>>)
engineProtected(c) ==
    base64urlEncode(JSONstringify(
        AssignProp(AssignProp(heap[c.sigs[1].header], "alg", c.sigs[1].alg),
                   "kid", Str(c.sigs[1].kid))))
engineData(c) == protectedDataOf(engineProtected(c), enginePayload(c))

\* The signer callback handed to issue (app.service.ts 227-231): it reads
\* this.protectedHeader.alg when the engine calls it.
signerResult(i, primOk) ==
    IF Falsy(GetProp(Header(i), "alg")) THEN "AlgNotSetWhenSigning"
    ELSE JWTSigner_sign(GetProp(Header(i), "alg"), primOk)

\* generalJSON.toJson() of a call the engine completed.
engineJWS(i, c) ==
    [payload |-> enginePayload(c),
     signatures |->
        <<[protected |-> engineProtected(c),
           signature |->
              Signature(JWTSigner_createSignature(GetProp(Header(i), "alg")),
                        engineData(c)),
           header |-> [kid |-> c.sigs[1].kid]]>>]

\* The n-th awaited issue call of instance i settles: the engine fails on
\* its own (engineOk false), or the signer callback throws, or the promise
\* resolves and createSignature stores the artifact (app.service.ts
\* 237-240).
issueSettles(i, n, engineOk, primOk) ==
    LET c == pending[i][n]
        result == IF ~engineOk THEN "IssuanceFailure"
                  ELSE signerResult(i, primOk)
    IN /\ n \in DOMAIN pending[i]
       /\ pending' = [pending EXCEPT ![i] =
                        SubSeq(@, 1, n - 1) \o SubSeq(@, n + 1, Len(@))]
       /\ serialized' = [serialized EXCEPT ![i] =
                           IF result = "ok" THEN Obj(engineJWS(i, c)) ELSE @]
       /\ signed' = [signed EXCEPT ![i] = @ \/ result = "ok"]
       /\ last' = [op |-> "sign", inst |-> i, arg |-> c.sigs[1].kid,
                   result |-> result,
                   signerCalls |->
                      IF engineOk /\ ~Falsy(GetProp(Header(i), "alg"))
                      THEN <<[alg |-> GetProp(Header(i), "alg"),
                              input |-> engineData(c)]>>
                      ELSE <<>>,
                   issueCalls |-> <<>>]
       /\ UNCHANGED <<live, variant, payload, protectedHeader, heap,
                      disclosureFrame, nOps>>

\* Mutant of toJSONResult: this.serialized is returned unguarded.
toJSONResult_unguarded(jws) == "ok"

\* Mutant of toJSONResult: the guard is inverted.
toJSONResult_inverted(jws) == IF Falsy(jws) THEN "ok" ELSE "NotSignedYet"

\* toJSON: the error thrown, or "ok" when this.serialized is returned.
toJSONResult(jws) == IF Falsy(jws) THEN "NotSignedYet" ELSE "ok"

toJSON(i) ==
    /\ nOps < MaxOps
    /\ Called("toJSON", i, serialized[i], toJSONResult(serialized[i]),
              <<>>, <<>>)
    /\ UNCHANGED <<live, variant, payload, protectedHeader, heap,
                   disclosureFrame, serialized, pending, signed>>

\* --------------------------------------------------------- the machine
\* The header objects the caller holds already.
CallerHeaders == {heap[q] : q \in DOMAIN heap \cap CallerRefs}

SetProtectedHeader ==
    \E i \in live, r \in CallerRefs, obj \in HeaderLiterals \cup CallerHeaders :
       setProtectedHeader(i, r, obj)
SetDisclosureFrame == \E i \in live, frame \in Frames : setDisclosureFrame(i, frame)
SetB64 == \E i \in live, b64 \in BOOLEAN : setB64(i, b64)
SetIssuedAt ==
    \E i \in live, sec \in SecArgs, nowMs \in Clock : setIssuedAt(i, sec, nowMs)
SetSignedAt ==
    \E i \in live, sec \in SecArgs, nowMs \in Clock : setSignedAt(i, sec, nowMs)
SetSigD == \E i \in live, sigd \in SigDs : setSigD(i, sigd)
SetJti == \E i \in live, jti \in Strings : setJti(i, jti)
SetX5u == \E i \in live, uri \in Strings : setX5u(i, uri)
SetX5c == \E i \in live, certs \in ChainLists : setX5c(i, certs)
SetX5tS256 == \E i \in live, cert \in Certs : setX5tS256(i, cert)
SetX5tSo == \E i \in live, cert \in Certs : setX5tSo(i, cert)
SetX5ts == \E i \in live, certs \in CertLists : setX5ts(i, certs)
SetCty == \E i \in live, cty \in Strings : setCty(i, cty)
SetKid == \E i \in live, kid \in Kids : setKid(i, kid)
JadesSign == \E i \in live, primOk \in BOOLEAN : jadesSign(i, primOk)
ExampleSign ==
    \E i \in live, kid \in Kids, primOk \in BOOLEAN : exampleSign(i, kid, primOk)
IssueSettles ==
    \E i \in live, n \in 1 .. MaxOps, engineOk \in BOOLEAN, primOk \in BOOLEAN :
       issueSettles(i, n, engineOk, primOk)
ToJSON == \E i \in live : toJSON(i)

Next ==
    \/ SetProtectedHeader
    \/ SetDisclosureFrame
    \/ SetB64
    \/ SetIssuedAt
    \/ SetSignedAt
    \/ SetSigD
    \/ SetJti
    \/ SetX5u
    \/ SetX5c
    \/ SetX5tS256
    \/ SetX5tSo
    \/ SetX5ts
    \/ SetCty
    \/ SetKid
    \/ JadesSign
    \/ ExampleSign
    \/ IssueSettles
    \/ ToJSON

Spec == Init /\ [][Next]_vars

\* Two instances in one program, one of each variant, the jades one
\* constructed without a payload.
InitTwo ==
    /\ InitWith(Inst)
    /\ variant = [i \in Inst |-> IF i = "A" THEN "jades" ELSE "example"]
    /\ payload["A"] = Undefined

SpecTwo == InitTwo /\ [][Next]_vars

\* Two instances of the same class, constructed alike and driven by the
\* same sequence of setter calls with the same arguments: each call is made
\* on A and then repeated on B (Date.now() is read by each call on its own).
InitPair ==
    /\ InitWith(Inst)
    /\ variant["A"] = variant["B"]
    /\ payload["A"] = payload["B"]

Turn == IF nOps % 2 = 0 THEN "A" ELSE "B"

\* The call just made was made on the instance whose turn it is, and on B
\* it is the call just made on A.
InTurn ==
    /\ last'.inst = Turn
    /\ Turn = "B" => last'.op = last.op /\ last'.arg = last.arg

PairNext ==
    \/ SetProtectedHeader /\ InTurn
    \/ SetDisclosureFrame /\ InTurn
    \/ SetB64 /\ InTurn
    \/ SetIssuedAt /\ InTurn
    \/ SetSignedAt /\ InTurn
    \/ SetSigD /\ InTurn
    \/ SetJti /\ InTurn
    \/ SetX5u /\ InTurn
    \/ SetX5c /\ InTurn
    \/ SetX5tS256 /\ InTurn
    \/ SetX5tSo /\ InTurn
    \/ SetX5ts /\ InTurn
    \/ SetCty /\ InTurn
    \/ SetKid /\ InTurn

SpecPair == InitPair /\ [][PairNext]_vars

\* ------------------------------------------------------------- claims
\* The b64 the header of instance i holds (undefined when it has none).
B64Of(i) == GetProp(Header(i), "b64")

\* The header of instance i names the HTTP-headers detached mechanism.
SigDIsHttp(i) ==
    /\ "sigD" \in DOMAIN Header(i)
    /\ Header(i)["sigD"][2].mId = HttpHeadersURI

\* The call recorded in last' is an API call just made (not the settling
\* of an awaited issue).
JustCalled(op) == nOps' = nOps + 1 /\ last'.op = op

\* The signature entries of the artifact instance i stores.
SignaturesOf(i) ==
    IF serialized[i] = Undefined THEN <<>> ELSE serialized[i][2].signatures

\* C1: in every reachable state, a protected header whose sigD.mId is the
\* HTTP-headers URI has b64 equal to false.
C1_SigDHttpImpliesB64False ==
    \A i \in live : SigDIsHttp(i) => B64Of(i) = Bool(FALSE)

\* C2: once a sign call has completed successfully the instance is Signed:
\* the artifact is populated and toJSON returns it.
C2_SignedAfterSign ==
    \A i \in live :
       signed[i] => /\ serialized[i] # Undefined
                    /\ toJSONResult(serialized[i]) = "ok"

\* C3: while no sign call has completed successfully, toJSON fails with
\* NotSignedYet.
C3_NotSignedYetBeforeSign ==
    \A i \in live : ~signed[i] => toJSONResult(serialized[i]) = "NotSignedYet"

\* C3 witness: toJSON has failed with NotSignedYet on an instance whose
\* header has an algorithm and whose sign call is still awaiting issue.
C3_Witness ==
    /\ last.op = "toJSON"
    /\ last.result = "NotSignedYet"
    /\ pending[last.inst] # <<>>
    /\ ~signed[last.inst]

\* C4: a sign call on an instance that is already Signed appends exactly
\* one signature entry, keeps the earlier entries, and keeps the payload.
C4_ResignAppendsOneSignature ==
    [][\A i \in live :
          (JustCalled("sign") /\ last'.inst = i /\ serialized[i] # Undefined)
          => /\ last'.result = "ok"
             /\ serialized'[i] # Undefined
             /\ serialized'[i][2].payload = serialized[i][2].payload
             /\ Len(serialized'[i][2].signatures) =
                  Len(serialized[i][2].signatures) + 1
             /\ SubSeq(serialized'[i][2].signatures, 1,
                       Len(serialized[i][2].signatures)) =
                  serialized[i][2].signatures]_vars

\* C5: sign with no algorithm in the protected header fails with
\* AlgorithmNotSet, calls neither JWTSigner.sign nor issue, and leaves the
\* instance Unsigned and its header as it was.
C5_SignWithoutAlgFails ==
    [][\A i \in live :
          (JustCalled("sign") /\ last'.inst = i /\ "alg" \notin DOMAIN Header(i))
          => /\ last'.result = "AlgorithmNotSet"
             /\ last'.signerCalls = <<>>
             /\ last'.issueCalls = <<>>
             /\ serialized'[i] = Undefined
             /\ ~signed'[i]
             /\ pending'[i] = <<>>
             /\ UNCHANGED <<protectedHeader, heap>>]_vars

\* C5 witness: a sign call has failed with AlgorithmNotSet on a header
\* that setters have written to.
C5_Witness ==
    /\ last.op = "sign"
    /\ last.result = "AlgorithmNotSet"
    /\ "alg" \notin DOMAIN Header(last.inst)
    /\ DOMAIN Header(last.inst) # {}

\* C6: setProtectedHeader given a header whose alg is absent or "none"
\* fails with InvalidAlgorithm and leaves the stored header as it was.
C6_InvalidAlgRejected ==
    [][(JustCalled("setProtectedHeader")
        /\ ("alg" \in DOMAIN last'.arg => last'.arg["alg"] = Str("none")))
       => /\ last'.result = "InvalidAlgorithm"
          /\ UNCHANGED <<protectedHeader, heap>>]_vars

\* C6 witness: a header with alg "none" was rejected while the instance
\* held a header with an algorithm.
C6_Witness ==
    /\ last.op = "setProtectedHeader"
    /\ last.result = "InvalidAlgorithm"
    /\ GetProp(last.arg, "alg") = Str("none")
    /\ "alg" \in DOMAIN Header(last.inst)

\* C7: alg is never "none": not in the protected header of an instance,
\* not in the protected header of a signature entry stored, not in the
\* header of a signing input handed to JWTSigner.sign.
C7_AlgNeverNone ==
    /\ \A i \in live :
          /\ GetProp(Header(i), "alg") # Str("none")
          /\ \A n \in DOMAIN SignaturesOf(i) :
                GetProp(DecodeProtected(SignaturesOf(i)[n].protected), "alg")
                   # Str("none")
    /\ \A n \in DOMAIN last.signerCalls :
          /\ last.signerCalls[n].alg # Str("none")
          /\ GetProp(DecodeProtected(last.signerCalls[n].input[1]), "alg")
                # Str("none")

\* C7 witness: a signature entry is stored, under a header with an
\* algorithm of the catalog.
C7_Witness ==
    \E i \in live :
       /\ SignaturesOf(i) # <<>>
       /\ GetProp(DecodeProtected(SignaturesOf(i)[1].protected), "alg")
             \in {Str(a) : a \in Catalog}

\* C8: after setSigD with the HTTP-headers mId the header has b64 = false,
\* whatever the header held before the call.
C8_SetSigDHttpForcesB64 ==
    [][(JustCalled("setSigD") /\ last'.arg.mId = HttpHeadersURI)
       => /\ "b64" \in DOMAIN heap'[protectedHeader'[last'.inst]]
          /\ heap'[protectedHeader'[last'.inst]]["b64"] = Bool(FALSE)]_vars

\* C8 witness: setSigD with the HTTP-headers mId has acted, after at least
\* one earlier call, and b64 is false.
C8_Witness ==
    /\ last.op = "setSigD"
    /\ last.arg.mId = HttpHeadersURI
    /\ nOps >= 2
    /\ B64Of(last.inst) = Bool(FALSE)

\* C9 as stated: after setB64(true) the header has no b64 key; after
\* setB64(false) b64 is false.
C9_SetB64TrueRemovesKey ==
    last.op = "setB64"
    => IF last.arg THEN "b64" \notin DOMAIN Header(last.inst)
       ELSE B64Of(last.inst) = Bool(FALSE)

\* C9 amended: after setB64(true) the header keeps a b64 property whose
\* value is undefined, which JSON.stringify leaves out of the serialized
\* header; after setB64(false) b64 is false, in the object and in its JSON.
C9_SetB64TrueStoresUndefined ==
    last.op = "setB64"
    => IF last.arg
       THEN /\ "b64" \in DOMAIN Header(last.inst)
            /\ Header(last.inst)["b64"] = Undefined
            /\ "b64" \notin DOMAIN JSONstringify(Header(last.inst))[2]
       ELSE /\ B64Of(last.inst) = Bool(FALSE)
            /\ "b64" \in DOMAIN JSONstringify(Header(last.inst))[2]
            /\ JSONstringify(Header(last.inst))[2]["b64"] = Bool(FALSE)

\* C9 witness: setB64(true) has acted on a header with an algorithm.
C9_Witness ==
    /\ last.op = "setB64"
    /\ last.arg
    /\ "alg" \in DOMAIN Header(last.inst)
    /\ "b64" \in DOMAIN Header(last.inst)

\* C10: setX5ts with fewer than 2 certificates fails with
\* InsufficientCertificates and leaves the header as it was; with n >= 2
\* it sets x5t#s to n pairs, the k-th the SHA-512 digest of the k-th
\* certificate.
C10_SetX5ts ==
    [][JustCalled("setX5ts")
       => LET certs == last'.arg
              after == heap'[protectedHeader'[last'.inst]]
          IN IF Len(certs) < 2
             THEN /\ last'.result = "InsufficientCertificates"
                  /\ UNCHANGED <<protectedHeader, heap>>
             ELSE /\ last'.result = "ok"
                  /\ "x5t#s" \in DOMAIN after
                  /\ after["x5t#s"][1] = "array"
                  /\ Len(after["x5t#s"][2]) = Len(certs)
                  /\ \A k \in 1 .. Len(certs) :
                        after["x5t#s"][2][k] =
                           Obj([digAlg |-> Str("sha-512"),
                                digVal |-> Str(<<"sha-512", "base64url",
                                                 certs[k]>>)])]_vars

\* C10 witness: setX5ts has failed on a single certificate, on a header
\* that an earlier setX5ts call had given three digest pairs.
C10_Witness ==
    /\ last.op = "setX5ts"
    /\ last.result = "InsufficientCertificates"
    /\ Len(last.arg) = 1
    /\ "x5t#s" \in DOMAIN Header(last.inst)
    /\ Len(Header(last.inst)["x5t#s"][2]) = 3

\* The protected value p is base64url(JSON(h)) for a header h that has the
\* members of the JSON text of obj, kid aside.
EncodesHeader(p, obj) ==
    /\ p[1] = "base64url"
    /\ p[2][1] = "json"
    /\ DOMAIN p[2][2] \ {"kid"} = DOMAIN JSONstringify(obj)[2] \ {"kid"}
    /\ \A k \in DOMAIN p[2][2] \ {"kid"} : p[2][2][k] = obj[k]

\* C11: a sign call that succeeds with the payload absent hands the
\* primitive exactly base64url(JSON(header)) followed by "." and nothing
\* else, and the resulting GeneralJWS has the empty payload and exactly one
\* signature entry, over that header.
C11_DetachedSign ==
    [][\A i \in live :
          (/\ JustCalled("sign")
           /\ last'.inst = i
           /\ last'.result = "ok"
           /\ payload[i] = Undefined)
          => /\ Len(last'.signerCalls) = 1
             /\ last'.signerCalls[1].input[2] = "."
             /\ last'.signerCalls[1].input[3] = EmptyString
             /\ EncodesHeader(last'.signerCalls[1].input[1], Header(i))
             /\ serialized'[i] # Undefined
             /\ serialized'[i][2].payload = EmptyString
             /\ Len(serialized'[i][2].signatures) = 1
             /\ serialized'[i][2].signatures[1].protected =
                  last'.signerCalls[1].input[1]]_vars

\* Identifiers outside the catalog: another JWS algorithm, the sentinel,
\* the empty string, a catalog name in another case, a curve not listed.
OutsideCatalog == {"HS256", "none", "", "rs256", "ES256K"}

\* C12, the dispatch table: every identifier outside the catalog is refused
\* with UnsupportedAlgorithm; RS* and PS* go to the RSA signer, ES* to the
\* ECDSA signer, which signs with IEEE-P1363 encoding, EdDSA to the EdDSA
\* signer.
C12_DispatchTable ==
    /\ \A a \in OutsideCatalog :
          /\ JWTSigner_createSignature(Str(a)) = "UnsupportedAlgorithm"
          /\ JWTSigner_sign(Str(a), TRUE) = "UnsupportedAlgorithm"
    /\ JWTSigner_sign(Undefined, TRUE) = "UnsupportedAlgorithm"
    /\ \A a \in {"RS256", "RS384", "RS512", "PS256", "PS384", "PS512"} :
          /\ JWTSigner_createSignature(Str(a)) = "createRSASignature"
          /\ JWTSigner_sign(Str(a), TRUE) = "ok"
    /\ \A a \in {"ES256", "ES384", "ES512"} :
          /\ JWTSigner_createSignature(Str(a)) = "createECDSASignature"
          /\ JWTSigner_sign(Str(a), TRUE) = "ok"
    /\ dsaEncoding("createECDSASignature") = "ieee-p1363"
    /\ JWTSigner_createSignature(Str("EdDSA")) = "createEdDSASignature"
    /\ JWTSigner_sign(Str("EdDSA"), TRUE) = "ok"

\* The alg of a header object is not an identifier of the catalog.
AlgOutsideCatalog(obj) ==
    GetProp(obj, "alg") \notin
       {Str(a) : a \in {"RS256", "RS384", "RS512", "PS256", "PS384", "PS512",
                        "ES256", "ES384", "ES512", "EdDSA"}}

\* C12: the dispatch table, and a sign call made while the header's alg is
\* outside the catalog fails and leaves the instance Unsigned: the call
\* does not return normally, and neither it nor the issue call it awaits
\* stores an artifact.
C12_SignOutsideCatalogFails ==
    [][/\ C12_DispatchTable
       /\ \A i \in live :
             (JustCalled("sign") /\ last'.inst = i
              /\ AlgOutsideCatalog(Header(i)))
             => /\ last'.result # "ok"
                /\ serialized'[i] = Undefined
       /\ \A i \in live :
             (nOps' = nOps /\ last'.op = "sign" /\ last'.inst = i
              /\ Len(pending'[i]) < Len(pending[i])
              /\ \E n \in DOMAIN pending[i] :
                    /\ pending'[i] =
                          SubSeq(pending[i], 1, n - 1)
                             \o SubSeq(pending[i], n + 1, Len(pending[i]))
                    /\ pending[i][n].sigs[1].alg \notin
                          {Str(a) : a \in Catalog})
             => /\ last'.result # "ok"
                /\ serialized'[i] = serialized[i]]_vars

\* The call recorded in last' is a header setter just called on i.
SetterCalledOn(i) ==
    /\ nOps' = nOps + 1
    /\ last'.inst = i
    /\ last'.op \notin {"sign", "toJSON", "setDisclosureFrame"}

\* C13: two instances share no mutable state: a setter called on one
\* instance leaves the protected header of every other instance as it was,
\* also when both were handed the same header object.
C13_NoSharedHeader ==
    [][\A i \in live : \A j \in live \ {i} :
          SetterCalledOn(i) => heap'[protectedHeader'[j]] = Header(j)]_vars

\* C14: with the payload absent, no sign call succeeds while sigD is
\* unset, and the protected header of every signature entry stored
\* contains a sigD field.
C14_DetachedSignHasSigD ==
    [][\A i \in live :
          (/\ JustCalled("sign")
           /\ last'.inst = i
           /\ last'.result = "ok"
           /\ payload[i] = Undefined)
          => /\ GetProp(Header(i), "sigD") # Undefined
             /\ \A n \in 1 .. (IF serialized'[i] = Undefined THEN 0
                               ELSE Len(serialized'[i][2].signatures)) :
                   "sigD" \in DOMAIN DecodeProtected(
                                 serialized'[i][2].signatures[n].protected)]_vars

\* The header mappings of A and B are the same mapping.
HeadersAgree == Header("A") = Header("B")

\* The header mappings of A and B have the same fields and agree on every
\* field other than iat and signedAt.
HeadersAgreeExceptTimes ==
    /\ DOMAIN Header("A") = DOMAIN Header("B")
    /\ \A k \in DOMAIN Header("A") \ {"iat", "signedAt"} :
          Header("A")[k] = Header("B")[k]

\* A header setter just called leaves everything that is not a header
\* object as it was.
SetterFrame ==
    (\E i \in live : SetterCalledOn(i))
    => UNCHANGED <<live, variant, payload, disclosureFrame, serialized,
                   pending, signed>>

\* C15 as stated: two instances driven by the same setter calls with the
\* same arguments end with identical header mappings, and a header setter
\* changes nothing but the header mapping.
C15_SettersDeterministic ==
    [][/\ nOps' % 2 = 0 => HeadersAgree'
       /\ SetterFrame]_vars

\* C15 amended: they end with header mappings that agree on every field
\* other than iat and signedAt; setIssuedAt(sec) and setSignedAt(sec) store
\* the sec they are given; a header setter changes nothing but header
\* objects, and setDisclosureFrame nothing but the disclosure frame.
C15_SettersAgreeExceptClock ==
    [][/\ nOps' % 2 = 0 => HeadersAgreeExceptTimes'
       /\ \A i \in live :
             (JustCalled("setIssuedAt") /\ last'.inst = i
              /\ last'.arg # Undefined)
             => heap'[protectedHeader'[i]]["iat"] = last'.arg
       /\ \A i \in live :
             (JustCalled("setSignedAt") /\ last'.inst = i
              /\ last'.arg # Undefined)
             => heap'[protectedHeader'[i]]["signedAt"] = last'.arg
       /\ SetterFrame
       /\ JustCalled("setDisclosureFrame")
          => UNCHANGED <<live, variant, payload, protectedHeader, heap,
                         serialized, pending, signed>>]_vars

\* C15 witness: setIssuedAt() was called on both instances, each holding
\* its own header object, and the two calls stored different seconds.
C15_Witness ==
    /\ nOps % 2 = 0
    /\ last.op = "setIssuedAt"
    /\ last.arg = Undefined
    /\ protectedHeader["A"] # protectedHeader["B"]
    /\ Header("A")["iat"] # Header("B")["iat"]
    /\ HeadersAgreeExceptTimes

\* C16: a sign call on an Unsigned instance of the example class that has
\* a payload and passes the algorithm guard invokes issue exactly once,
\* with the payload given to the constructor, the disclosure frame last
\* given to setDisclosureFrame (undefined if none was), hashAlg sha-256 and
\* exactly one signer entry, whose alg is the header's alg and whose kid is
\* the kid given to sign.
C16_IssueArguments ==
    [][\A i \in live :
          /\ (/\ JustCalled("sign")
              /\ last'.inst = i
              /\ variant[i] = "example"
              /\ payload[i] # Undefined
              /\ serialized[i] = Undefined
              /\ GetProp(Header(i), "alg") \notin {Undefined, Str(""), Str("none")})
             => /\ Len(last'.issueCalls) = 1
                /\ last'.issueCalls[1].payload = payload[i]
                /\ last'.issueCalls[1].disclosureFrame = disclosureFrame[i]
                /\ last'.issueCalls[1].hashAlg = "sha-256"
                /\ Len(last'.issueCalls[1].sigs) = 1
                /\ last'.issueCalls[1].sigs[1].alg = Header(i)["alg"]
                /\ last'.issueCalls[1].sigs[1].kid = last'.arg
                /\ pending'[i] = Append(pending[i], last'.issueCalls[1])
          /\ disclosureFrame'[i] # disclosureFrame[i]
             => /\ JustCalled("setDisclosureFrame")
                /\ last'.inst = i
                /\ disclosureFrame'[i] = last'.arg
          /\ payload'[i] = payload[i]]_vars

\* C16 witness: sign has invoked issue with a disclosure frame that
\* setDisclosureFrame had stored.
C16_Witness ==
    /\ last.op = "sign"
    /\ last.result = "pending"
    /\ Len(last.issueCalls) = 1
    /\ last.issueCalls[1].disclosureFrame \in Frames
    /\ last.issueCalls[1].payload \in Payloads

\* C17: a detached sign call leaves the instance's protected header
\* mapping as it was, and the signature entry it stores has as protected
\* value the header segment of the signing input that was signed, which
\* encodes the protected header with kid set to the kid given to sign.
C17_DetachedProtectedIsSigned ==
    [][\A i \in live :
          (JustCalled("sign") /\ last'.inst = i /\ payload[i] = Undefined)
          => /\ UNCHANGED <<protectedHeader, heap>>
             /\ serialized'[i] # serialized[i]
                => LET entry == serialized'[i][2].signatures[1]
                       encoded == DecodeProtected(entry.protected)
                   IN /\ Len(serialized'[i][2].signatures) = 1
                      /\ Len(last'.signerCalls) = 1
                      /\ entry.protected = last'.signerCalls[1].input[1]
                      /\ entry.signature.input = last'.signerCalls[1].input
                      /\ entry.protected[1] = "base64url"
                      /\ entry.protected[2][1] = "json"
                      /\ DOMAIN encoded =
                           {k \in DOMAIN Header(i) : Header(i)[k] # Undefined}
                              \cup {"kid"}
                      /\ encoded["kid"] = Str(last'.arg)
                      /\ \A k \in DOMAIN encoded \ {"kid"} :
                            encoded[k] = Header(i)[k]]_vars

\* C17 witness: a detached sign has stored a signature entry whose
\* protected header carries sign's kid while the instance's header still
\* holds another kid.
C17_Witness ==
    \E i \in live :
       /\ last.op = "sign"
       /\ last.inst = i
       /\ payload[i] = Undefined
       /\ SignaturesOf(i) # <<>>
       /\ DecodeProtected(SignaturesOf(i)[1].protected)["kid"] = Str(last.arg)
       /\ GetProp(Header(i), "kid") \notin {Undefined, Str(last.arg)}

\* C18: an instance of the example class that is Signed stays Signed:
\* whatever call comes next, the artifact stays stored and toJSON does not
\* fail, and a setter leaves the stored artifact (payload, protected and
\* signature values) as it was.
C18_SignedStaysSigned ==
    [][\A i \in live :
          (variant[i] = "example" /\ signed[i])
          => /\ signed'[i]
             /\ serialized[i] # Undefined
             /\ serialized'[i] # Undefined
             /\ toJSONResult(serialized'[i]) = "ok"
             /\ (JustCalled("toJSON") /\ last'.inst = i)
                => last'.result = "ok" /\ last'.arg = serialized[i]
             /\ (nOps' = nOps + 1 /\ last'.op \notin {"sign", "toJSON"})
                => serialized'[i] = serialized[i]]_vars

\* C18 witness: a setter called after sign has changed the header, and the
\* stored signature entry still encodes the header that was signed.
C18_Witness ==
    \E i \in live :
       /\ variant[i] = "example"
       /\ signed[i]
       /\ last.op = "setJti"
       /\ last.inst = i
       /\ SignaturesOf(i) # <<>>
       /\ "jti" \in DOMAIN Header(i)
       /\ "jti" \notin DOMAIN DecodeProtected(SignaturesOf(i)[1].protected)

\* The header field each single-field setter writes.
OwnField(op) ==
    CASE op = "setJti" -> "jti"
      [] op = "setX5u" -> "x5u"
      [] op = "setX5c" -> "x5c"
      [] op = "setX5tS256" -> "x5t#256"
      [] op = "setX5tSo" -> "x5t#o"
      [] op = "setX5ts" -> "x5t#s"
      [] op = "setCty" -> "cty"
      [] op = "setKid" -> "kid"
      [] op = "setIssuedAt" -> "iat"
      [] op = "setSignedAt" -> "signedAt"
      [] op = "setB64" -> "b64"
      [] op = "setSigD" -> "sigD"

\* Header object after agrees with header object before on every field
\* other than field: none added, none removed, none changed.
OnlyFieldChanged(before, after, field) ==
    /\ DOMAIN after \ {field} = DOMAIN before \ {field}
    /\ \A k \in DOMAIN before \ {field} : after[k] = before[k]

\* C19: each of setJti, setX5u, setX5c, setX5tS256, setX5tSo, setX5ts,
\* setCty, setKid, setIssuedAt, setSignedAt and setB64 changes only its own
\* header field, and setSigD with an mId other than the HTTP-headers URI
\* changes only sigD, b64 staying as it was; the instance keeps the same
\* header object.
C19_SetterChangesOwnFieldOnly ==
    [][\A i \in live :
          (/\ nOps' = nOps + 1
           /\ last'.inst = i
           /\ \/ last'.op \in {"setJti", "setX5u", "setX5c", "setX5tS256",
                               "setX5tSo", "setX5ts", "setCty", "setKid",
                               "setIssuedAt", "setSignedAt", "setB64"}
              \/ last'.op = "setSigD" /\ last'.arg.mId # HttpHeadersURI)
          => /\ protectedHeader' = protectedHeader
             /\ OnlyFieldChanged(Header(i), heap'[protectedHeader'[i]],
                                 OwnField(last'.op))
             /\ \A r \in DOMAIN heap \ {protectedHeader[i]} :
                   r \in DOMAIN heap' /\ heap'[r] = heap[r]]_vars

\* C19 witness: setSigD with another mechanism has replaced the
\* HTTP-headers sigD of a header and b64 is still the false it was.
C19_Witness ==
    /\ last.op = "setSigD"
    /\ last.arg.mId # HttpHeadersURI
    /\ Header(last.inst)["sigD"] = Obj(last.arg)
    /\ B64Of(last.inst) = Bool(FALSE)
    /\ "alg" \in DOMAIN Header(last.inst)

====
